---- MODULE Spec2Model ----
\* A model of the mixed-radix counter of src/src/lib.rs: MixedRadixCounter<T, E>
\* with T instantiated at u8 (the type the tests use) and E up to MaxE.
\* Rust index i (0 = most significant) is sequence index i + 1 here.
EXTENDS Integers, Sequences, FiniteSets, TLC

\* ---------------------------------------------------------------- bounds
MaxE == 2         \* largest arity E explored
MaxCalls == 4     \* largest number of increment/add calls on one counter
MaxAdds == 2      \* largest number of add calls among them

\* T::MAX of the element type (u8::MAX, as in tests::test_max)
TMax == 255

\* values the constructors and add are called with
LimitVals == {0, 1, 2, 3, TMax}
ElemVals == {0, 2, TMax - 1, TMax}
AddVals == {0, 1, 3, 240, TMax}

VARIABLES
    E,                \* const generic E: number of digits
    overflow_checks,  \* build profile: TRUE = arithmetic overflow panics, FALSE = it wraps
    result,           \* "none" before construction, then "Ok" or "Err"
    elements,         \* self.elements (<<>> while no counter exists)
    limits,           \* self.limits
    arg_limits,       \* the limits array passed to the constructor
    arg_elements,     \* the elements array passed to (or defaulted by) the constructor
    op,               \* the last operation called
    arg,              \* the value passed to the last add
    pre,              \* self.elements before the last increment/add
    ret,              \* what the last increment/add returned
    overflowed,       \* the last increment/add computed a sum above T::MAX
    calls,            \* number of increment/add calls made on the counter
    adds,             \* how many of those were add
    ovf,              \* how many increment calls returned Some
    other_result,     \* a second counter to compare with: "none", then "Ok" or "Err"
    other_elements,   \* other.elements
    other_limits,     \* other.limits
    cmp_ret,          \* what the last comparison of self with other returned
    view,             \* the digits the last read through Deref returned (<<>> after a mutation)
    add_stop,         \* the index at which the last add returned (0: after its loop)
    first_pre,        \* of two add calls in a row: self.elements before the first
    first_arg,        \* the value passed to the first
    first_ret         \* what the first returned

ordvars == <<other_result, other_elements, other_limits, cmp_ret>>

histvars == <<first_pre, first_arg, first_ret>>

vars == <<E, overflow_checks, result, elements, limits, arg_limits, arg_elements,
          op, arg, pre, ret, overflowed, calls, adds, ovf, ordvars, view, add_stop,
          histvars>>

\* ---------------------------------------------------------------- values
None == [kind |-> "None", val |-> 0]
Some(v) == [kind |-> "Some", val |-> v]
Panic == [kind |-> "Panic", val |-> 0]
NoRet == [kind |-> "NA", val |-> 0]

\* T::default() and T::one()
Default == 0
One == 1

\* [T::default(); E]
Zeros(n) == [i \in 1..n |-> Default]

Arrays(n, S) == [1..n -> S]

\* ---------------------------------------------------------------- construction
\* validation that rejects only an element above its limit
RECURSIVE TryForEachGt(_, _, _)
TryForEachGt(lims, els, i) ==
    IF i > Len(els) THEN 0
    ELSE IF els[i] > lims[i] THEN i
    ELSE TryForEachGt(lims, els, i + 1)

\* elements.iter().zip(limits.iter()).try_for_each(...): the index of the first
\* pair that is rejected, scanning from index 1; 0 when every pair passes
RECURSIVE TryForEach(_, _, _)
TryForEach(lims, els, i) ==
    IF i > Len(els) THEN 0
    ELSE IF els[i] >= lims[i] THEN i
    ELSE TryForEach(lims, els, i + 1)

try_from_limits_and_elements(lims, els) ==
    IF TryForEach(lims, els, 1) # 0
    THEN [ok |-> FALSE, elements |-> <<>>, limits |-> <<>>]
    ELSE [ok |-> TRUE, elements |-> els, limits |-> lims]

\* try_from_limits with the two arguments of the call swapped
try_from_limits_swapped(lims) == try_from_limits_and_elements(Zeros(Len(lims)), lims)

try_from_limits(lims) == try_from_limits_and_elements(lims, Zeros(Len(lims)))

try_from(value) == try_from_limits(value)

\* ---------------------------------------------------------------- arithmetic on T
\* a + b in T: the mathematical sum when it fits; above T::MAX the build decides
Fits(a, b) == a + b <= TMax
WrappingAdd(a, b) == (a + b) % (TMax + 1)

\* ---------------------------------------------------------------- increment
\* increment with the comparison off by one: a digit may reach its limit
RECURSIVE IncrementLoopLe(_, _, _, _, _)
IncrementLoopLe(els, lims, i, checks, ov) ==
    IF i = 0 THEN [elements |-> els, ret |-> Some(One), overflowed |-> ov]
    ELSE IF ~Fits(els[i], One) /\ checks
         THEN [elements |-> els, ret |-> Panic, overflowed |-> TRUE]
    ELSE LET sum == WrappingAdd(els[i], One)
             o == ov \/ ~Fits(els[i], One)
         IN IF sum <= lims[i]
            THEN [elements |-> [els EXCEPT ![i] = sum], ret |-> None, overflowed |-> o]
            ELSE IncrementLoopLe([els EXCEPT ![i] = Default], lims, i - 1, checks, o)

\* increment that carries without resetting the digit that wrapped
RECURSIVE IncrementLoopNoReset(_, _, _, _, _)
IncrementLoopNoReset(els, lims, i, checks, ov) ==
    IF i = 0 THEN [elements |-> els, ret |-> Some(One), overflowed |-> ov]
    ELSE IF ~Fits(els[i], One) /\ checks
         THEN [elements |-> els, ret |-> Panic, overflowed |-> TRUE]
    ELSE LET sum == WrappingAdd(els[i], One)
             o == ov \/ ~Fits(els[i], One)
         IN IF sum < lims[i]
            THEN [elements |-> [els EXCEPT ![i] = sum], ret |-> None, overflowed |-> o]
            ELSE IncrementLoopNoReset(els, lims, i - 1, checks, o)

\* increment that stops at the most significant digit instead of wrapping it
RECURSIVE IncrementLoopSaturate(_, _, _, _, _)
IncrementLoopSaturate(els, lims, i, checks, ov) ==
    IF i = 0 THEN [elements |-> els, ret |-> Some(One), overflowed |-> ov]
    ELSE IF ~Fits(els[i], One) /\ checks
         THEN [elements |-> els, ret |-> Panic, overflowed |-> TRUE]
    ELSE LET sum == WrappingAdd(els[i], One)
             o == ov \/ ~Fits(els[i], One)
         IN IF sum < lims[i]
            THEN [elements |-> [els EXCEPT ![i] = sum], ret |-> None, overflowed |-> o]
            ELSE IF i = 1
            THEN [elements |-> els, ret |-> Some(One), overflowed |-> o]
            ELSE IncrementLoopSaturate([els EXCEPT ![i] = Default], lims, i - 1, checks, o)

\* increment that reports no overflow when the scan runs out of digits
RECURSIVE IncrementLoopEndNone(_, _, _, _, _)
IncrementLoopEndNone(els, lims, i, checks, ov) ==
    IF i = 0 THEN [elements |-> els, ret |-> None, overflowed |-> ov]
    ELSE IF ~Fits(els[i], One) /\ checks
         THEN [elements |-> els, ret |-> Panic, overflowed |-> TRUE]
    ELSE LET sum == WrappingAdd(els[i], One)
             o == ov \/ ~Fits(els[i], One)
         IN IF sum < lims[i]
            THEN [elements |-> [els EXCEPT ![i] = sum], ret |-> None, overflowed |-> o]
            ELSE IncrementLoopEndNone([els EXCEPT ![i] = Default], lims, i - 1, checks, o)

\* the loop of increment from index i down to 1
RECURSIVE IncrementLoop(_, _, _, _, _)
IncrementLoop(els, lims, i, checks, ov) ==
    IF i = 0 THEN [elements |-> els, ret |-> Some(One), overflowed |-> ov]
    ELSE IF ~Fits(els[i], One) /\ checks
         THEN [elements |-> els, ret |-> Panic, overflowed |-> TRUE]
    ELSE LET sum == WrappingAdd(els[i], One)
             o == ov \/ ~Fits(els[i], One)
         IN IF sum < lims[i]
            THEN [elements |-> [els EXCEPT ![i] = sum], ret |-> None, overflowed |-> o]
            ELSE IncrementLoop([els EXCEPT ![i] = Default], lims, i - 1, checks, o)

increment(els, lims, checks) == IncrementLoop(els, lims, Len(els), checks, FALSE)

\* ---------------------------------------------------------------- add
\* add that stores the sum of a wrapping digit without reducing it
RECURSIVE AddLoopNoRem(_, _, _, _, _, _)
AddLoopNoRem(els, lims, carry, i, checks, ov) ==
    IF i = 0 THEN [elements |-> els, ret |-> None, overflowed |-> ov, stop |-> 0]
    ELSE IF ~Fits(els[i], carry) /\ checks
         THEN [elements |-> els, ret |-> Panic, overflowed |-> TRUE, stop |-> i]
    ELSE LET limit == lims[i]
             sum == WrappingAdd(els[i], carry)
             o == ov \/ ~Fits(els[i], carry)
         IN IF sum < limit
            THEN [elements |-> [els EXCEPT ![i] = sum], ret |-> None, overflowed |-> o,
                  stop |-> i]
            ELSE LET new_value == sum
                     c == sum \div limit
                     stored == [els EXCEPT ![i] = new_value]
                 IN IF i = 1 /\ c # 0
                    THEN [elements |-> stored, ret |-> Some(c), overflowed |-> o, stop |-> i]
                    ELSE AddLoopNoRem(stored, lims, c, i - 1, checks, o)

\* add that reports a non-zero carry at whatever digit it arises
RECURSIVE AddLoopEarlySome(_, _, _, _, _, _)
AddLoopEarlySome(els, lims, carry, i, checks, ov) ==
    IF i = 0 THEN [elements |-> els, ret |-> None, overflowed |-> ov, stop |-> 0]
    ELSE IF ~Fits(els[i], carry) /\ checks
         THEN [elements |-> els, ret |-> Panic, overflowed |-> TRUE, stop |-> i]
    ELSE LET limit == lims[i]
             sum == WrappingAdd(els[i], carry)
             o == ov \/ ~Fits(els[i], carry)
         IN IF sum < limit
            THEN [elements |-> [els EXCEPT ![i] = sum], ret |-> None, overflowed |-> o,
                  stop |-> i]
            ELSE LET new_value == sum % limit
                     c == sum \div limit
                     stored == [els EXCEPT ![i] = new_value]
                 IN IF c # 0
                    THEN [elements |-> stored, ret |-> Some(c), overflowed |-> o, stop |-> i]
                    ELSE AddLoopEarlySome(stored, lims, c, i - 1, checks, o)

\* add whose overflow test names an index the loop never visits
RECURSIVE AddLoopNoSome(_, _, _, _, _, _)
AddLoopNoSome(els, lims, carry, i, checks, ov) ==
    IF i = 0 THEN [elements |-> els, ret |-> None, overflowed |-> ov, stop |-> 0]
    ELSE IF ~Fits(els[i], carry) /\ checks
         THEN [elements |-> els, ret |-> Panic, overflowed |-> TRUE, stop |-> i]
    ELSE LET limit == lims[i]
             sum == WrappingAdd(els[i], carry)
             o == ov \/ ~Fits(els[i], carry)
         IN IF sum < limit
            THEN [elements |-> [els EXCEPT ![i] = sum], ret |-> None, overflowed |-> o,
                  stop |-> i]
            ELSE LET new_value == sum % limit
                     c == sum \div limit
                     stored == [els EXCEPT ![i] = new_value]
                 IN IF i = 0 /\ c # 0
                    THEN [elements |-> stored, ret |-> Some(c), overflowed |-> o, stop |-> i]
                    ELSE AddLoopNoSome(stored, lims, c, i - 1, checks, o)

\* the loop of add from index i down to 1, with the running carry
RECURSIVE AddLoop(_, _, _, _, _, _)
AddLoop(els, lims, carry, i, checks, ov) ==
    IF i = 0 THEN [elements |-> els, ret |-> None, overflowed |-> ov, stop |-> 0]
    ELSE IF ~Fits(els[i], carry) /\ checks
         THEN [elements |-> els, ret |-> Panic, overflowed |-> TRUE, stop |-> i]
    ELSE LET limit == lims[i]
             sum == WrappingAdd(els[i], carry)
             o == ov \/ ~Fits(els[i], carry)
         IN IF sum < limit
            THEN [elements |-> [els EXCEPT ![i] = sum], ret |-> None, overflowed |-> o,
                  stop |-> i]
            ELSE LET new_value == sum % limit
                     c == sum \div limit
                     stored == [els EXCEPT ![i] = new_value]
                 IN IF i = 1 /\ c # 0
                    THEN [elements |-> stored, ret |-> Some(c), overflowed |-> o, stop |-> i]
                    ELSE AddLoop(stored, lims, c, i - 1, checks, o)

add(els, lims, value, checks) == AddLoop(els, lims, value, Len(els), checks, FALSE)

\* ---------------------------------------------------------------- read access
\* a read that hands out the limits instead of the digits
deref_limits(self) == self.limits

\* Deref::deref: &self.elements
deref(self) == self.elements

\* ---------------------------------------------------------------- derived comparisons
\* [T; E] == [T; E]: element by element from index 1
RECURSIVE ArrayEq(_, _, _)
ArrayEq(a, b, i) ==
    IF i > Len(a) THEN TRUE
    ELSE IF a[i] # b[i] THEN FALSE
    ELSE ArrayEq(a, b, i + 1)

\* [T; E]::cmp: the first index where the arrays differ decides
RECURSIVE ArrayCmp(_, _, _)
ArrayCmp(a, b, i) ==
    IF i > Len(a) THEN "Equal"
    ELSE IF a[i] < b[i] THEN "Less"
    ELSE IF a[i] > b[i] THEN "Greater"
    ELSE ArrayCmp(a, b, i + 1)

\* derive(PartialEq): every field equal, in declaration order
eq(a, b) == ArrayEq(a.elements, b.elements, 1) /\ ArrayEq(a.limits, b.limits, 1)

\* a comparison that takes the fields in the other order
cmp_limits_first(a, b) ==
    LET c == ArrayCmp(a.limits, b.limits, 1)
    IN IF c # "Equal" THEN c ELSE ArrayCmp(a.elements, b.elements, 1)

\* derive(Ord): the fields compared in declaration order, elements then limits
cmp(a, b) ==
    LET c == ArrayCmp(a.elements, b.elements, 1)
    IN IF c # "Equal" THEN c ELSE ArrayCmp(a.limits, b.limits, 1)

\* derive(PartialOrd): a < b
lt(a, b) == cmp(a, b) = "Less"

\* ---------------------------------------------------------------- the state machine
Init ==
    /\ E \in 0..MaxE
    /\ overflow_checks \in BOOLEAN
    /\ result = "none"
    /\ elements = <<>>
    /\ limits = <<>>
    /\ arg_limits = <<>>
    /\ arg_elements = <<>>
    /\ op = "none"
    /\ arg = 0
    /\ pre = <<>>
    /\ ret = NoRet
    /\ overflowed = FALSE
    /\ calls = 0
    /\ adds = 0
    /\ ovf = 0
    /\ other_result = "none"
    /\ other_elements = <<>>
    /\ other_limits = <<>>
    /\ cmp_ret = "NA"
    /\ view = <<>>
    /\ add_stop = 0
    /\ first_pre = <<>>
    /\ first_arg = 0
    /\ first_ret = NoRet

Construct(name, lims, els, r) ==
    /\ result' = IF r.ok THEN "Ok" ELSE "Err"
    /\ elements' = r.elements
    /\ limits' = r.limits
    /\ arg_limits' = lims
    /\ arg_elements' = els
    /\ op' = name
    /\ UNCHANGED <<E, overflow_checks, arg, pre, ret, overflowed, calls, adds, ovf, ordvars,
                   view, add_stop, histvars>>

TryFromLimitsAndElements ==
    /\ result = "none"
    /\ \E lims \in Arrays(E, LimitVals), els \in Arrays(E, ElemVals) :
        Construct("try_from_limits_and_elements", lims, els,
                  try_from_limits_and_elements(lims, els))

TryFromLimits ==
    /\ result = "none"
    /\ \E lims \in Arrays(E, LimitVals) :
        Construct("try_from_limits", lims, Zeros(E), try_from_limits(lims))

TryFrom ==
    /\ result = "none"
    /\ \E value \in Arrays(E, LimitVals) :
        Construct("try_from", value, Zeros(E), try_from(value))

\* a counter exists and the thread using it has not panicked
Usable == result = "Ok" /\ ret.kind # "Panic" /\ calls < MaxCalls

Increment ==
    /\ Usable
    /\ LET r == increment(elements, limits, overflow_checks)
       IN /\ elements' = r.elements
          /\ ret' = r.ret
          /\ overflowed' = r.overflowed
          /\ ovf' = IF r.ret.kind = "Some" THEN ovf + 1 ELSE ovf
    /\ pre' = elements
    /\ op' = "increment"
    /\ arg' = 0
    /\ calls' = calls + 1
    /\ view' = <<>>
    /\ add_stop' = 0
    /\ UNCHANGED <<E, overflow_checks, result, limits, arg_limits, arg_elements, adds, ordvars, histvars>>

\* add that writes the digits it computes into self.limits
AddWritingLimits ==
    /\ Usable
    /\ adds < MaxAdds
    /\ \E value \in AddVals :
        LET r == add(elements, limits, value, overflow_checks)
        IN /\ limits' = r.elements
           /\ ret' = r.ret
           /\ overflowed' = r.overflowed
           /\ arg' = value
           /\ add_stop' = r.stop
    /\ pre' = elements
    /\ op' = "add"
    /\ calls' = calls + 1
    /\ adds' = adds + 1
    /\ view' = <<>>
    /\ UNCHANGED <<E, overflow_checks, result, elements, arg_limits, arg_elements, ovf, ordvars, histvars>>

Add ==
    /\ Usable
    /\ adds < MaxAdds
    /\ \E value \in AddVals :
        LET r == add(elements, limits, value, overflow_checks)
        IN /\ elements' = r.elements
           /\ ret' = r.ret
           /\ overflowed' = r.overflowed
           /\ arg' = value
           /\ add_stop' = r.stop
    /\ pre' = elements
    /\ op' = "add"
    /\ calls' = calls + 1
    /\ adds' = adds + 1
    /\ view' = <<>>
    /\ UNCHANGED <<E, overflow_checks, result, limits, arg_limits, arg_elements, ovf, ordvars, histvars>>

\* the digits are read through the shared view; the borrow ends before the
\* next call that takes &mut self
Deref ==
    /\ result = "Ok"
    /\ ret.kind # "Panic"
    /\ view' = deref([elements |-> elements, limits |-> limits])
    /\ op' = "deref"
    /\ UNCHANGED <<E, overflow_checks, result, elements, limits, arg_limits, arg_elements,
                   arg, pre, ret, overflowed, calls, adds, ovf, ordvars, add_stop, histvars>>

\* a second add right after an add; what the first did is remembered
AddAgain ==
    /\ Usable
    /\ adds < MaxAdds
    /\ op = "add"
    /\ \E value \in AddVals :
        LET r == add(elements, limits, value, overflow_checks)
        IN /\ elements' = r.elements
           /\ ret' = r.ret
           /\ overflowed' = r.overflowed
           /\ arg' = value
           /\ add_stop' = r.stop
    /\ first_pre' = pre
    /\ first_arg' = arg
    /\ first_ret' = ret
    /\ pre' = elements
    /\ op' = "add_again"
    /\ calls' = calls + 1
    /\ adds' = adds + 1
    /\ view' = <<>>
    /\ UNCHANGED <<E, overflow_checks, result, limits, arg_limits, arg_elements, ovf, ordvars>>

NextAdd ==
    \/ TryFromLimitsAndElements
    \/ Add
    \/ AddAgain

SpecAdd == Init /\ [][NextAdd]_vars

Next ==
    \/ TryFromLimitsAndElements
    \/ TryFromLimits
    \/ TryFrom
    \/ Increment
    \/ Add
    \/ Deref

Spec == Init /\ [][Next]_vars

\* ---------------------------------------------------------------- comparing two counters
Self == [elements |-> elements, limits |-> limits]
Other == [elements |-> other_elements, limits |-> other_limits]

\* a second counter of the same arity is built
TryFromOther ==
    /\ result = "Ok"
    /\ other_result = "none"
    /\ \E lims \in Arrays(E, LimitVals), els \in Arrays(E, ElemVals) :
        LET r == try_from_limits_and_elements(lims, els)
        IN /\ other_result' = IF r.ok THEN "Ok" ELSE "Err"
           /\ other_elements' = r.elements
           /\ other_limits' = r.limits
    /\ UNCHANGED <<E, overflow_checks, result, elements, limits, arg_limits,
                   arg_elements, op, arg, pre, ret, overflowed, calls, adds, ovf, cmp_ret,
                   view, add_stop, histvars>>

Compare(name, answer) ==
    /\ result = "Ok"
    /\ other_result = "Ok"
    /\ op' = name
    /\ cmp_ret' = answer
    /\ UNCHANGED <<E, overflow_checks, result, elements, limits, arg_limits,
                   arg_elements, arg, pre, ret, overflowed, calls, adds, ovf,
                   other_result, other_elements, other_limits, view, add_stop, histvars>>

Eq == Compare("eq", IF eq(Self, Other) THEN "true" ELSE "false")

Lt == Compare("lt", IF lt(Self, Other) THEN "true" ELSE "false")

Cmp == Compare("cmp", cmp(Self, Other))

NextOrd ==
    \/ TryFromLimitsAndElements
    \/ TryFromOther
    \/ Eq
    \/ Lt
    \/ Cmp

SpecOrd == Init /\ [][NextOrd]_vars

\* ---------------------------------------------------------------- what the digits encode
\* the product of the limits from index i to the last: the weight of digit i - 1
RECURSIVE ProductFrom(_, _)
ProductFrom(lims, i) ==
    IF i > Len(lims) THEN 1 ELSE lims[i] * ProductFrom(lims, i + 1)

Product(lims) == ProductFrom(lims, 1)

\* the mixed-radix value of the digits, index 1 most significant
RECURSIVE ValueFrom(_, _, _)
ValueFrom(els, lims, i) ==
    IF i > Len(els) THEN 0
    ELSE els[i] * ProductFrom(lims, i + 1) + ValueFrom(els, lims, i + 1)

Value(els, lims) == ValueFrom(els, lims, 1)

\* k calls of increment in a row, from the digits st.elements with st.count
\* overflows counted so far: the digits left and how many calls returned Some.
\* The k calls are made as two runs of about k/2 calls; the test on first.count
\* only makes the first run be evaluated before the second starts.
RECURSIVE IncrementRun(_, _, _)
IncrementRun(st, lims, k) ==
    IF k = 0 THEN st
    ELSE IF k = 1
         THEN LET r == increment(st.elements, lims, TRUE)
              IN [elements |-> r.elements,
                  count |-> IF r.ret.kind = "Some" THEN st.count + 1 ELSE st.count]
    ELSE LET first == IncrementRun(st, lims, k \div 2)
         IN IF first.count >= 0
            THEN IncrementRun(first, lims, k - (k \div 2))
            ELSE first

IncrementTimes(els, lims, k) == IncrementRun([elements |-> els, count |-> 0], lims, k)

\* the counter was built all-zero and only increment has been called on it
OnlyIncrementsFromZero == result = "Ok" /\ arg_elements = Zeros(E) /\ adds = 0

\* ---------------------------------------------------------------- claims
\* C1: in every counter that a constructor returned, after any sequence of
\* increment and add calls, every digit is at least 0 and below its limit.
C1_DigitsBelowLimits ==
    result = "Ok" =>
        /\ Len(elements) = E /\ Len(limits) = E
        /\ \A i \in 1..E : 0 <= elements[i] /\ elements[i] < limits[i]

C1_Witness ==
    /\ result = "Ok" /\ E = 2 /\ calls >= 3 /\ adds >= 1 /\ adds < calls
    /\ op = "add" /\ ret.kind = "Some"

\* C2: for a counter with at least one digit encoding x, add(v) leaves digits
\* that encode (x + v) mod P and returns None when x + v < P and
\* Some((x + v) div P) otherwise, P being the product of the limits.
C2_AddEncodesSum ==
    (op = "add" /\ E >= 1) =>
        LET x == Value(pre, limits)
            P == Product(limits)
        IN /\ Value(elements, limits) = (x + arg) % P
           /\ ret = IF x + arg < P THEN None ELSE Some((x + arg) \div P)

\* C3: add(k) leaves the digits that k calls of increment leave, and returns
\* None when none of them overflowed and Some(c) when c of them did.
C3_AddIsRepeatedIncrement ==
    op = "add" =>
        LET r == IncrementTimes(pre, limits, arg)
        IN /\ elements = r.elements
           /\ ret = IF r.count = 0 THEN None ELSE Some(r.count)

\* C4: from the all-zero counter, after k increment calls with k below the
\* product of the limits, no call has overflowed and the digits encode k.
C4_IncrementCounts ==
    (OnlyIncrementsFromZero /\ calls < Product(limits)) =>
        /\ ovf = 0
        /\ ret.kind # "Some"
        /\ Value(elements, limits) = calls

C4_Witness ==
    /\ OnlyIncrementsFromZero /\ E = 2 /\ calls = 3 /\ calls < Product(limits)
    /\ limits[2] < TMax /\ elements[1] > 0

\* C5: from the all-zero counter with at least one digit, exactly
\* product(limits) increment calls bring the digits back to all-zero; the last
\* call returns Some(one) and every earlier one None.
C5_WrapsAtCapacity ==
    (OnlyIncrementsFromZero /\ E >= 1) =>
        /\ calls = Product(limits) =>
               elements = Zeros(E) /\ ret = Some(One) /\ ovf = 1
        /\ (0 < calls /\ calls < Product(limits)) =>
               elements # Zeros(E) /\ ret = None /\ ovf = 0

C5_Witness ==
    /\ OnlyIncrementsFromZero /\ E = 2 /\ limits = <<2, 2>> /\ calls = 4
    /\ ret = Some(One)

\* C6: try_from_limits_and_elements returns Err exactly when some element is
\* at or above its limit; otherwise the counter holds exactly the elements and
\* limits passed; on Err no counter exists.
C6_ConstructionValidates ==
    op = "try_from_limits_and_elements" =>
        /\ result = "Err" <=> \E i \in 1..E : arg_elements[i] >= arg_limits[i]
        /\ result = "Ok" => elements = arg_elements /\ limits = arg_limits
        /\ result = "Err" => elements = <<>> /\ limits = <<>>
        /\ result \in {"Ok", "Err"}

C6_Witness ==
    /\ op = "try_from_limits_and_elements" /\ result = "Err" /\ E = 2
    /\ arg_elements[1] < arg_limits[1]
    /\ arg_elements[2] = arg_limits[2] /\ arg_limits[2] > 0

\* C7: try_from_limits, and the TryFrom conversion, succeed exactly when every
\* limit is above 0, and the counter they return is all-zero.
C7_FromLimitsNeedsPositive ==
    op \in {"try_from_limits", "try_from"} =>
        /\ result = "Ok" <=> \A i \in 1..E : arg_limits[i] > 0
        /\ result = "Err" <=> \E i \in 1..E : arg_limits[i] = 0
        /\ result = "Ok" => elements = Zeros(E) /\ limits = arg_limits

C7_Witness ==
    /\ op = "try_from" /\ result = "Ok" /\ E = 2
    /\ limits = <<TMax, 1>> /\ elements = <<0, 0>>

\* C8: add never fails: it returns None or Some(carry), and no sum
\* elements[i] + carry it computes is above T::MAX.
C8_AddNeverOverflowsT ==
    op = "add" => ret.kind \in {"None", "Some"} /\ ~overflowed

\* C9: in increment, the candidate elements[i] + 1 at a visited digit is never
\* above T::MAX, also for a digit whose limit is T::MAX.
C9_IncrementFitsT ==
    op = "increment" => ret.kind \in {"None", "Some"} /\ ~overflowed

C9_Witness ==
    /\ op = "increment" /\ E >= 1
    /\ limits[E] = TMax /\ pre[E] = TMax - 1 /\ elements[E] = 0


\* a is before b in lexicographic order: they agree up to some index where a is smaller
LexLess(a, b) ==
    \E k \in 1..Len(a) : a[k] < b[k] /\ \A j \in 1..(k - 1) : a[j] = b[j]

\* C10: equality and ordering of two counters are lexicographic over
\* (elements, limits): a = b iff both fields are equal, and a < b iff
\* a.elements is lexicographically less, or the elements are equal and
\* a.limits is lexicographically less.
C10_OrderIsLexicographic ==
    LET less == \/ LexLess(elements, other_elements)
                \/ elements = other_elements /\ LexLess(limits, other_limits)
        same == elements = other_elements /\ limits = other_limits
    IN /\ op = "eq" => (cmp_ret = "true" <=> same)
       /\ op = "lt" => (cmp_ret = "true" <=> less)
       /\ op = "cmp" => /\ cmp_ret = "Less" <=> less
                        /\ cmp_ret = "Equal" <=> same
                        /\ cmp_ret \in {"Less", "Equal", "Greater"}

C10_Witness ==
    /\ op = "lt" /\ cmp_ret = "true" /\ E = 2
    /\ elements[1] = other_elements[1] /\ elements[2] < other_elements[2]
    /\ LexLess(other_limits, limits)

\* C11: a read through Deref returns the current digits and changes neither
\* the digits nor the limits nor anything a later increment or add depends on.
C11_ReadChangesNothing ==
    [][op' = "deref" =>
          /\ view' = elements
          /\ elements' = elements
          /\ limits' = limits
          /\ UNCHANGED <<result, ret, overflow_checks, calls, adds, ovf>>]_vars

C11_Witness ==
    /\ op = "deref" /\ E = 2 /\ calls >= 2 /\ adds >= 1
    /\ view = elements /\ elements # Zeros(E) /\ elements # limits

\* the largest index whose digit is below limits[i] - 1, 0 when every digit is
\* at its maximum
Movable(els, lims) ==
    LET S == {i \in 1..Len(els) : els[i] < lims[i] - 1}
    IN IF S = {} THEN 0 ELSE CHOOSE i \in S : \A j \in S : j <= i

\* C12: with at least one digit, increment returns Some(one) exactly when
\* every digit was at its maximum before the call, and then every digit is 0
\* afterwards; otherwise it returns None.
C12_IncrementOverflowsAtMax ==
    (op = "increment" /\ E >= 1) =>
        /\ ret = Some(One) <=> \A i \in 1..E : pre[i] = limits[i] - 1
        /\ ret = Some(One) => elements = Zeros(E)
        /\ ret \in {None, Some(One)}

C12_Witness ==
    /\ op = "increment" /\ E = 2 /\ ret = Some(One)
    /\ pre[1] > 0 /\ pre[2] > 0 /\ elements = Zeros(E)

\* C13: add returns Some(c) only from the most significant digit, after every
\* digit has been updated, and c is never zero.
C13_AddOverflowsFromTop ==
    (op = "add" /\ ret.kind = "Some") =>
        /\ E >= 1
        /\ add_stop = 1
        /\ ret.val # 0

C13_Witness ==
    /\ op = "add" /\ ret.kind = "Some" /\ E = 2 /\ ret.val > 1
    /\ elements # pre

\* C14: when increment returns None, the largest index i whose digit was below
\* limits[i] - 1 is one larger afterwards, every digit right of i is 0 and
\* every digit left of i is unchanged.
C14_IncrementCarry ==
    (op = "increment" /\ ret = None) =>
        LET i == Movable(pre, limits)
        IN /\ i >= 1
           /\ elements[i] = pre[i] + 1
           /\ \A j \in (i + 1)..E : elements[j] = 0
           /\ \A j \in 1..(i - 1) : elements[j] = pre[j]

C14_Witness ==
    /\ op = "increment" /\ ret = None /\ E = 2
    /\ pre[1] > 0 /\ pre[2] > 0 /\ elements[2] = 0 /\ elements[1] = pre[1] + 1

\* the carry that reaches index i when v is added to the digits els, computed
\* over the integers
RECURSIVE CarryInto(_, _, _, _)
CarryInto(els, lims, v, i) ==
    IF i = Len(els) THEN v
    ELSE (els[i + 1] + CarryInto(els, lims, v, i + 1)) \div lims[i + 1]

\* the first index, scanning from the last, where digit plus carry is below the
\* limit; 0 when there is none
StopIndex(els, lims, v) ==
    LET S == {i \in 1..Len(els) : els[i] + CarryInto(els, lims, v, i) < lims[i]}
    IN IF S = {} THEN 0 ELSE CHOOSE i \in S : \A j \in S : j <= i

\* C15: add(v) stops at the first index i, scanning from the last, where
\* elements[i] + carry < limits[i]: it stores that sum, returns None and leaves
\* every digit left of i unchanged; add(zero) changes nothing and returns None.
C15_AddStopsAtFirstFit ==
    op = "add" =>
        LET i == StopIndex(pre, limits, arg)
        IN /\ i >= 1 =>
                /\ add_stop = i
                /\ ret = None
                /\ elements[i] = pre[i] + CarryInto(pre, limits, arg, i)
                /\ \A j \in 1..(i - 1) : elements[j] = pre[j]
           /\ (ret = None /\ add_stop >= 1) =>
                /\ add_stop = i
                /\ \A j \in 1..(add_stop - 1) : elements[j] = pre[j]
           /\ arg = 0 => elements = pre /\ ret = None

\* C16: with zero digits construction succeeds and every increment returns
\* Some(one).
C16_EmptyCounterIncrement ==
    E = 0 =>
        /\ result # "Err"
        /\ op = "increment" => ret = Some(One) /\ elements = <<>>
        /\ ovf = calls - adds

C16_Witness ==
    /\ E = 0 /\ result = "Ok" /\ op = "increment" /\ calls >= 2 /\ ovf = calls

\* C17: with zero digits add(v) returns None for every v; with at least one
\* digit add never returns through the None after its loop.
C17_AddTrailingNone ==
    op = "add" =>
        /\ E = 0 => ret = None /\ add_stop = 0
        /\ E >= 1 => add_stop >= 1

C17_Witness ==
    /\ E = 0 /\ op = "add" /\ arg > 0 /\ ret = None

\* the overflow a call returned, None counting as 0
Carry(r) == IF r.kind = "Some" THEN r.val ELSE 0

\* C18: with at least one digit and a + b representable in T, add(a) then
\* add(b) leaves the digits of one add(a + b) from the same state, the two
\* overflows sum to the overflow of add(a + b), and add(b) then add(a) ends in
\* the same digits.
C18_AddIsAdditive ==
    (op = "add_again" /\ E >= 1 /\ first_arg + arg <= TMax) =>
        LET once == add(first_pre, limits, first_arg + arg, overflow_checks)
            b_first == add(first_pre, limits, arg, overflow_checks)
            b_then_a == add(b_first.elements, limits, first_arg, overflow_checks)
        IN /\ elements = once.elements
           /\ Carry(first_ret) + Carry(ret) = Carry(once.ret)
           /\ elements = b_then_a.elements

\* C19: no operation modifies the limits: after any sequence of increment, add
\* and read calls they equal the limits passed to the constructor.
C19_LimitsNeverChange ==
    result = "Ok" => limits = arg_limits

C19_Witness ==
    /\ result = "Ok" /\ E = 2 /\ op = "deref" /\ calls >= 3
    /\ adds >= 1 /\ ovf >= 1 /\ limits = arg_limits

====
